---- MODULE Spec2Model ----
(***************************************************************************)
(* Hit Counter Service: the request handlers of service/routes.py over the *)
(* Counter store adapter (service/models.py) and the key-value store.      *)
(*                                                                         *)
(* Every store call of a handler is one atomic step.  A handler that makes *)
(* a second store call is in flight between the two, and the handlers of   *)
(* other requests interleave there.  A step that starts a handler includes *)
(* the request's dispatch, which touches no shared state once init_db has  *)
(* run.  Spec serves requests concurrently, SeqSpec one at a time.         *)
(***************************************************************************)
EXTENDS Integers, FiniteSets, Sequences, Bags, TLC

\* ---- bounds of the model ------------------------------------------------
NumReqs == 2            \* workers: requests that can be in flight at once
MaxVal == 2             \* largest value a counter is driven to

Names == {"a", "b"}     \* the <name> path parameter

\* ---- HTTP status codes --------------------------------------------------
HTTP_200_OK == 200
HTTP_201_CREATED == 201
HTTP_204_NO_CONTENT == 204
HTTP_404_NOT_FOUND == 404
HTTP_409_CONFLICT == 409
HTTP_503_SERVICE_UNAVAILABLE == 503

NamedMethods == {"GET", "POST", "PUT", "DELETE"}
PlainMethods == {"LIST", "HEALTH", "INDEX"}
NoName == ""

VARIABLES
    store,              \* the key-value store: a function name -> value, on the names that exist
    redis,              \* Counter's connection handle: "unset", "connected" or "failed"
    got_first_request,  \* the framework's flag behind @app.before_first_request
    inflight,           \* bag of the requests between their first and second store call
    resp,               \* the response sent by the step just taken, NoResp if it sent none
    connects,           \* history: how many times init_db called Counter.connect
    live,               \* history: name -> a POST returned 201 and no DELETE returned 204 since
    win,                \* history: name -> the PUTs answered 200 since the last POST/DELETE of the name
    deleted             \* history: name -> a DELETE returned 204 and no POST was or is running since

vars == <<store, redis, got_first_request, inflight, resp, connects, live, win, deleted>>

\* ---- the store adapter (service/models.py) ------------------------------
None == <<>>

SetKey(s, n, v) == [k \in (DOMAIN s) \cup {n} |-> IF k = n THEN v ELSE s[k]]

\* Counter.find(name): the counter object, or None
Find(s, n) == IF n \in DOMAIN s THEN <<s[n]>> ELSE None

\* Counter(name): a new counter stored with value 0
NewCounter(s, n) == SetKey(s, n, 0)

\* counter.increment(): the store's atomic increment.  The store is Redis
\* (init_db: "Initializing the Redis database"), whose increment counts an
\* absent key from 0.
Increment(s, n) == SetKey(s, n, (IF n \in DOMAIN s THEN s[n] ELSE 0) + 1)

\* del counter.value
DelValue(s, n) == [k \in (DOMAIN s) \ {n} |-> s[k]]

\* Counter.all()
All(s) == s

\* counter.serialize()
Serialize(n, v) == <<n, v>>

\* the outcomes of one store call: TRUE = it returns, FALSE = DatabaseConnectionError
StoreOutcomes == IF redis = "connected" THEN BOOLEAN ELSE {FALSE}

\* ---- requests in flight -------------------------------------------------
Request(m, n, counter) == [method |-> m, name |-> n, counter |-> counter]

One(q) == SetToBag({q})

\* how many requests with a method of ms for name n are in the bag b
Count(b, ms, n) ==
    BagCardinality([q \in {x \in DOMAIN b : x.method \in ms /\ x.name = n} |-> b[q]])

StoredOrZero(n) == IF n \in DOMAIN store THEN store[n] ELSE 0

NoResp == [method |-> "NONE", name |-> NoName, status |-> 0, body |-> <<>>, calls |-> 0, failed |-> 0]

\* ---- history bookkeeping ------------------------------------------------
NoWin == {}

\* a handler stays in flight after its first store call
StartHistory(m, n) ==
    /\ win' = IF m \in {"POST", "DELETE"} THEN [win EXCEPT ![n] = NoWin] ELSE win
    /\ deleted' = IF m = "POST" THEN [deleted EXCEPT ![n] = FALSE] ELSE deleted
    /\ UNCHANGED live

\* a handler answers; rest are the requests still in flight, s2 is the store it leaves
RespondHistory(m, n, rest, s2, st, body) ==
    IF m \notin NamedMethods
    THEN UNCHANGED <<live, win, deleted>>
    ELSE
    /\ live' = IF m = "POST" /\ st = HTTP_201_CREATED THEN [live EXCEPT ![n] = TRUE]
               ELSE IF m = "DELETE" /\ st = HTTP_204_NO_CONTENT THEN [live EXCEPT ![n] = FALSE]
               ELSE live
    /\ win' = IF m \in {"POST", "DELETE"}
              THEN IF Count(rest, {"POST", "DELETE"}, n) = 0 /\ n \in DOMAIN s2
                   THEN [win EXCEPT ![n] = {[fresh |-> (m = "POST" /\ st = HTTP_201_CREATED),
                                             base |-> s2[n], count |-> 0, rets |-> {}]}]
                   ELSE [win EXCEPT ![n] = NoWin]
              ELSE IF m = "PUT" /\ st = HTTP_200_OK
                   THEN [win EXCEPT ![n] =
                            {[w EXCEPT !.count = @ + 1, !.rets = @ \cup {body[2]}] : w \in win[n]}]
                   ELSE win
    /\ deleted' = IF m = "DELETE" /\ st = HTTP_204_NO_CONTENT
                  THEN [deleted EXCEPT ![n] = (Count(rest, {"POST"}, n) = 0)]
                  ELSE IF m = "POST" THEN [deleted EXCEPT ![n] = FALSE]
                  ELSE deleted

\* the handler of a request (m, n) leaves the store as s2 and sends its response
Respond(m, n, rest, s2, st, body, calls, failed) ==
    /\ inflight' = rest
    /\ store' = s2
    /\ resp' = [method |-> m, name |-> n, status |-> st, body |-> body,
                calls |-> calls, failed |-> failed]
    /\ RespondHistory(m, n, rest, s2, st, body)

\* the handler made its first store call and goes on to its second
Continue(m, n, counter) ==
    /\ inflight' = inflight (+) One(Request(m, n, counter))
    /\ resp' = NoResp
    /\ StartHistory(m, n)
    /\ UNCHANGED store

\* ---- initial state ------------------------------------------------------
Init ==
    /\ store = <<>>
    /\ redis = "unset"
    /\ got_first_request = FALSE
    /\ inflight = EmptyBag
    /\ resp = NoResp
    /\ connects = 0
    /\ live = [n \in Names |-> FALSE]
    /\ win = [n \in Names |-> NoWin]
    /\ deleted = [n \in Names |-> FALSE]

\* ---- dispatch -----------------------------------------------------------
\* init_db hooked before every request
InitNeededEveryRequest == TRUE

\* @app.before_first_request: does init_db still have to run?
InitNeeded == ~got_first_request

\* the first request arrives: init_db() calls Counter.connect; a
\* DatabaseConnectionError is logged and swallowed
init_db ==
    /\ InitNeeded
    /\ \E ok \in BOOLEAN : redis' = IF ok THEN "connected" ELSE "failed"
    /\ connects' = connects + 1
    /\ got_first_request' = TRUE
    /\ UNCHANGED <<store, inflight, resp, live, win, deleted>>

\* a request is dispatched to its handler: init_db has run and a worker is free
Dispatched == got_first_request /\ BagCardinality(inflight) < NumReqs

\* ---- handlers -----------------------------------------------------------
\* a health check that reports the store connection
health_checks_store ==
    /\ Dispatched
    /\ IF redis = "connected"
       THEN Respond("HEALTH", NoName, inflight, store, HTTP_200_OK, <<"OK">>, 0, 0)
       ELSE Respond("HEALTH", NoName, inflight, store, HTTP_503_SERVICE_UNAVAILABLE, <<>>, 0, 0)
    /\ UNCHANGED <<redis, got_first_request, connects>>

health ==
    /\ Dispatched
    /\ Respond("HEALTH", NoName, inflight, store, HTTP_200_OK, <<"OK">>, 0, 0)
    /\ UNCHANGED <<redis, got_first_request, connects>>

index ==
    /\ Dispatched
    /\ Respond("INDEX", NoName, inflight, store, HTTP_200_OK,
               <<"Hit Counter Service", "1.0.0">>, 0, 0)
    /\ UNCHANGED <<redis, got_first_request, connects>>

list_counters ==
    /\ Dispatched
    /\ \E ok \in StoreOutcomes :
        IF ok THEN Respond("LIST", NoName, inflight, store, HTTP_200_OK, All(store), 1, 0)
        ELSE Respond("LIST", NoName, inflight, store, HTTP_503_SERVICE_UNAVAILABLE, <<>>, 1, 1)
    /\ UNCHANGED <<redis, got_first_request, connects>>

\* a zero-valued counter taken for a missing one
read_missing_zero(counter) == counter = None \/ counter[1] = 0

\* read_counters: "if not counter"
read_missing(counter) == counter = None

read_counters(name) ==
    /\ Dispatched
    /\ \E ok \in StoreOutcomes :
        LET counter == Find(store, name) IN
        IF ~ok THEN Respond("GET", name, inflight, store, HTTP_503_SERVICE_UNAVAILABLE, <<>>, 1, 1)
        ELSE IF read_missing(counter)
             THEN Respond("GET", name, inflight, store, HTTP_404_NOT_FOUND, <<>>, 1, 0)
        ELSE Respond("GET", name, inflight, store, HTTP_200_OK, Serialize(name, counter[1]), 1, 0)
    /\ UNCHANGED <<redis, got_first_request, connects>>

\* a zero-valued counter taken for a missing one
create_conflict_zero(counter) == counter # None /\ counter[1] # 0

\* create_counters: "if counter is not None"
create_conflict(counter) == counter # None

\* create_counters: Counter.find(name), then 409 or on to Counter(name)
create_find(name) ==
    /\ Dispatched
    /\ \E ok \in StoreOutcomes :
        LET counter == Find(store, name) IN
        IF ~ok THEN Respond("POST", name, inflight, store, HTTP_503_SERVICE_UNAVAILABLE, <<>>, 1, 1)
        ELSE IF create_conflict(counter)
             THEN Respond("POST", name, inflight, store, HTTP_409_CONFLICT, <<>>, 1, 0)
        ELSE Continue("POST", name, counter)
    /\ UNCHANGED <<redis, got_first_request, connects>>

\* create_counters: counter = Counter(name), then 201 with the serialized counter
create_new(q) ==
    /\ q \in DOMAIN inflight /\ q.method = "POST"
    /\ \E ok \in StoreOutcomes :
        IF ok THEN Respond("POST", q.name, inflight (-) One(q), NewCounter(store, q.name),
                           HTTP_201_CREATED, Serialize(q.name, 0), 2, 0)
        ELSE Respond("POST", q.name, inflight (-) One(q), store,
                     HTTP_503_SERVICE_UNAVAILABLE, <<>>, 2, 2)
    /\ UNCHANGED <<redis, got_first_request, connects>>

\* a zero-valued counter taken for a missing one
update_missing_zero(counter) == counter = None \/ counter[1] = 0

\* update_counters: "if counter is None"
update_missing(counter) == counter = None

\* update_counters: Counter.find(name), then 404 or on to counter.increment()
update_find(name) ==
    /\ Dispatched
    /\ StoredOrZero(name) + Count(inflight, {"PUT"}, name) < MaxVal
    /\ \E ok \in StoreOutcomes :
        LET counter == Find(store, name) IN
        IF ~ok THEN Respond("PUT", name, inflight, store, HTTP_503_SERVICE_UNAVAILABLE, <<>>, 1, 1)
        ELSE IF update_missing(counter)
             THEN Respond("PUT", name, inflight, store, HTTP_404_NOT_FOUND, <<>>, 1, 0)
        ELSE Continue("PUT", name, counter)
    /\ UNCHANGED <<redis, got_first_request, connects>>

\* the increment as a read of the found value and a write of value + 1
update_increment_read_write(q) ==
    /\ q \in DOMAIN inflight /\ q.method = "PUT"
    /\ \E ok \in StoreOutcomes :
        LET count == q.counter[1] + 1
        IN  IF ok THEN Respond("PUT", q.name, inflight (-) One(q), SetKey(store, q.name, count),
                               HTTP_200_OK, <<q.name, count>>, 2, 0)
            ELSE Respond("PUT", q.name, inflight (-) One(q), store,
                         HTTP_503_SERVICE_UNAVAILABLE, <<>>, 2, 2)
    /\ UNCHANGED <<redis, got_first_request, connects>>

\* update_counters: count = counter.increment(), then 200 with name and count
update_increment(q) ==
    /\ q \in DOMAIN inflight /\ q.method = "PUT"
    /\ \E ok \in StoreOutcomes :
        LET incremented == Increment(store, q.name)
            count == incremented[q.name]
        IN  IF ok THEN Respond("PUT", q.name, inflight (-) One(q), incremented,
                               HTTP_200_OK, <<q.name, count>>, 2, 0)
            ELSE Respond("PUT", q.name, inflight (-) One(q), store,
                         HTTP_503_SERVICE_UNAVAILABLE, <<>>, 2, 2)
    /\ UNCHANGED <<redis, got_first_request, connects>>

\* a zero-valued counter taken for a missing one
delete_present_zero(counter) == counter # None /\ counter[1] # 0

\* delete_counters: "if counter:"
delete_present(counter) == counter # None

\* delete_counters: Counter.find(name), then 204 at once or on to del counter.value
delete_find(name) ==
    /\ Dispatched
    /\ \E ok \in StoreOutcomes :
        LET counter == Find(store, name) IN
        IF ~ok THEN Respond("DELETE", name, inflight, store, HTTP_503_SERVICE_UNAVAILABLE, <<>>, 1, 1)
        ELSE IF delete_present(counter) THEN Continue("DELETE", name, counter)
        ELSE Respond("DELETE", name, inflight, store, HTTP_204_NO_CONTENT, <<>>, 1, 0)
    /\ UNCHANGED <<redis, got_first_request, connects>>

\* the store error of the delete swallowed, as init_db swallows its own
delete_del_swallow(q) ==
    /\ q \in DOMAIN inflight /\ q.method = "DELETE"
    /\ \E ok \in StoreOutcomes :
        IF ok THEN Respond("DELETE", q.name, inflight (-) One(q), DelValue(store, q.name),
                           HTTP_204_NO_CONTENT, <<>>, 2, 0)
        ELSE Respond("DELETE", q.name, inflight (-) One(q), store,
                     HTTP_204_NO_CONTENT, <<>>, 2, 2)
    /\ UNCHANGED <<redis, got_first_request, connects>>

\* delete_counters: del counter.value, then 204 with an empty body
delete_del(q) ==
    /\ q \in DOMAIN inflight /\ q.method = "DELETE"
    /\ \E ok \in StoreOutcomes :
        IF ok THEN Respond("DELETE", q.name, inflight (-) One(q), DelValue(store, q.name),
                           HTTP_204_NO_CONTENT, <<>>, 2, 0)
        ELSE Respond("DELETE", q.name, inflight (-) One(q), store,
                     HTTP_503_SERVICE_UNAVAILABLE, <<>>, 2, 2)
    /\ UNCHANGED <<redis, got_first_request, connects>>

\* ---- specifications -----------------------------------------------------
\* a handler starts
Start ==
    \/ health
    \/ index
    \/ list_counters
    \/ \E name \in Names : read_counters(name)
    \/ \E name \in Names : create_find(name)
    \/ \E name \in Names : update_find(name)
    \/ \E name \in Names : delete_find(name)

\* a handler in flight makes its second store call
Finish ==
    \/ \E q \in DOMAIN inflight : create_new(q)
    \/ \E q \in DOMAIN inflight : update_increment(q)
    \/ \E q \in DOMAIN inflight : delete_del(q)

\* requests are served concurrently
Next ==
    \/ init_db
    \/ Start
    \/ Finish

Spec == Init /\ [][Next]_vars

\* requests are served one at a time: a handler starts only when none is in flight
SeqNext ==
    \/ init_db
    \/ inflight = EmptyBag /\ Start
    \/ Finish

SeqSpec == Init /\ [][SeqNext]_vars

\* ---- properties ---------------------------------------------------------
\* the step just taken answered a request of method m without a store failure
Answered(m) == resp'.method = m /\ resp'.failed = 0

\* C1: served one at a time and with no store failure, a POST for a name that
\* has no counter stores the counter with value 0 and answers 201 with it; a
\* POST for a name that has one, and every POST that follows a 201 POST of the
\* name with no 204 DELETE in between, answers 409 and leaves the store as it was.
C1_CreateThenConflict ==
    [][Answered("POST") =>
        LET n == resp'.name IN
        /\ n \notin DOMAIN store =>
              /\ resp'.status = HTTP_201_CREATED
              /\ resp'.body = <<n, 0>>
              /\ store' = [k \in (DOMAIN store) \cup {n} |-> IF k = n THEN 0 ELSE store[k]]
        /\ (n \in DOMAIN store \/ live[n]) =>
              /\ resp'.status = HTTP_409_CONFLICT
              /\ store' = store]_vars

\* a POST answered 409 right after the 201 of the same name
C1_Witness ==
    /\ resp.method = "POST" /\ resp.status = HTTP_409_CONFLICT
    /\ live[resp.name]
    /\ store[resp.name] = 0

\* C2: served one at a time and with no store failure, a PUT for a name that
\* has no counter answers 404 and leaves the store as it was; a PUT for a name
\* that has one answers 200 with the value raised by exactly 1; and after a 201
\* POST followed by N PUTs answered 200 (no other POST or DELETE of the name)
\* the stored value and the value last returned are both N.
C2_PutIncrements ==
    [][/\ Answered("PUT") =>
            LET n == resp'.name IN
            /\ n \notin DOMAIN store =>
                  resp'.status = HTTP_404_NOT_FOUND /\ store' = store
            /\ n \in DOMAIN store =>
                  /\ resp'.status = HTTP_200_OK
                  /\ resp'.body = <<n, store[n] + 1>>
                  /\ store' = [store EXCEPT ![n] = @ + 1]
            /\ \A w \in win'[n] : w.fresh /\ resp'.status = HTTP_200_OK => resp'.body[2] = w.count
       /\ \A n \in Names : \A w \in win'[n] :
            w.fresh => n \in DOMAIN store' /\ store'[n] = w.count]_vars

\* the second PUT after a POST was answered, and a PUT was answered 404
C2_Witness ==
    /\ resp.method = "PUT" /\ resp.status = HTTP_200_OK
    /\ \E w \in win[resp.name] : w.fresh /\ w.count = 2
    /\ \E n \in Names : n \notin DOMAIN store /\ ~live[n]

\* C3: served one at a time and with no store failure, a DELETE answers 204
\* whether or not the counter exists and leaves the store without the name and
\* with every other counter as it was; a DELETE that follows a 204 DELETE of the
\* name (no POST of the name in between) answers 204 and leaves the store as it was.
C3_DeleteIdempotent ==
    [][Answered("DELETE") =>
        LET n == resp'.name IN
        /\ resp'.status = HTTP_204_NO_CONTENT
        /\ resp'.body = <<>>
        /\ store' = [k \in (DOMAIN store) \ {n} |-> store[k]]
        /\ deleted[n] => store' = store]_vars

\* the second of two DELETEs was answered 204 while another counter exists
C3_Witness ==
    /\ resp.method = "DELETE" /\ resp.status = HTTP_204_NO_CONTENT /\ resp.calls = 1
    /\ deleted[resp.name]
    /\ \E n \in Names : n \in DOMAIN store /\ store[n] > 0

\* C4: served one at a time and with no store failure, a GET answers 404
\* exactly when the name has no counter, which is exactly when no POST of it was
\* answered 201 since the last 204 DELETE; otherwise it answers 200 with the
\* counter's current value; the store is left as it was.
C4_ReadFoundOrMissing ==
    [][Answered("GET") =>
        LET n == resp'.name IN
        /\ store' = store
        /\ (resp'.status = HTTP_404_NOT_FOUND) = (n \notin DOMAIN store)
        /\ (resp'.status = HTTP_404_NOT_FOUND) = ~live[n]
        /\ n \in DOMAIN store =>
              resp'.status = HTTP_200_OK /\ resp'.body = <<n, store[n]>>]_vars

\* a GET of a deleted name was answered 404
C4_Witness ==
    /\ resp.method = "GET" /\ resp.status = HTTP_404_NOT_FOUND
    /\ deleted[resp.name]

\* C5: a request whose store call fails is answered 503, and the failing call
\* is the last store call it makes; a request with no failing call is never
\* answered 503.
C5_StoreFailureIs503 ==
    /\ resp.failed > 0 => resp.status = HTTP_503_SERVICE_UNAVAILABLE /\ resp.calls = resp.failed
    /\ resp.status = HTTP_503_SERVICE_UNAVAILABLE => resp.failed > 0

\* the second store call of a DELETE failed while the store was connected
C5_Witness ==
    /\ resp.method = "DELETE" /\ resp.failed = 2
    /\ redis = "connected"

\* C6: Counter.connect is called at most once, and it has been called, and the
\* handle set, whenever a request is or has been handled, also when it failed.
C6_ConnectOnce ==
    /\ connects <= 1
    /\ (resp # NoResp \/ DOMAIN inflight # {}) => connects = 1 /\ redis # "unset"

\* a request was answered after the connect had failed
C6_Witness ==
    /\ redis = "failed" /\ connects = 1
    /\ resp.status = HTTP_503_SERVICE_UNAVAILABLE

\* C7: a health request is always answered 200 with status "OK", with no store
\* call, and leaves the store as it was.
C7_HealthUnconditional ==
    [][resp'.method = "HEALTH" =>
        /\ resp'.status = HTTP_200_OK
        /\ resp'.body = <<"OK">>
        /\ resp'.calls = 0
        /\ store' = store]_vars

\* a health request was answered after the connect had failed
C7_Witness ==
    /\ resp.method = "HEALTH" /\ resp.status = HTTP_200_OK
    /\ redis = "failed"

\* C8: while no POST or DELETE of a name runs, the PUTs of the name answered 200
\* since the last one raised the stored value by exactly their number, and the
\* values they returned are pairwise distinct.
C8_NoLostIncrement ==
    \A n \in Names : \A w \in win[n] :
        /\ n \in DOMAIN store
        /\ store[n] = w.base + w.count
        /\ Cardinality(w.rets) = w.count

\* a PUT was answered 200 while another PUT, which had found the counter before
\* that increment, is still to make its own
C8_Witness ==
    /\ resp.method = "PUT" /\ resp.status = HTTP_200_OK
    /\ \E w \in win[resp.name] : w.count >= 1
    /\ \E q \in DOMAIN inflight :
          q.method = "PUT" /\ q.name = resp.name /\ q.counter[1] < store[q.name]

\* C9: a POST is answered 201 only if no POST of the name was answered 201
\* since the last 204 DELETE, and the value of a counter that exists before and
\* after a step never decreases.
C9_SingleCreateNoReset ==
    [][/\ resp'.method = "POST" /\ resp'.status = HTTP_201_CREATED => ~live[resp'.name]
       /\ \A n \in (DOMAIN store) \cap (DOMAIN store') : store'[n] >= store[n]]_vars

\* C10: once a DELETE of a name was answered 204 and no POST of the name was
\* running then or has started since, the name has no counter.
C10_DeletedStaysAbsent ==
    \A n \in Names : deleted[n] => n \notin DOMAIN store
====
